---------------------------- MODULE Spec2Model ----------------------------
(***************************************************************************)
(* Model of tanach-study/email-automation, src/index.js: the pipeline      *)
(* main/cli -> run (load templates, fetch schedule, transform, render,     *)
(* write artifacts, create campaign, schedule campaign) and the pure       *)
(* functions it is built from.                                             *)
(*                                                                         *)
(* JavaScript values are tagged records: [t |-> "undefined"],              *)
(* [t |-> "null"], [t |-> "number", n |-> 3], [t |-> "string", s |-> "x"], *)
(* [t |-> "object", ...fields], [t |-> "array", a |-> <<...>>].  A thrown  *)
(* exception is the value [t |-> "throw", e |-> "<message>"].  Strings the *)
(* code only concatenates are TLA+ strings; strings the code walks         *)
(* character by character (the rendered bodies) are sequences of UTF-16    *)
(* code units.  Times are minutes since the epoch (the code's are          *)
(* milliseconds; every time the model handles is a whole minute).          *)
(***************************************************************************)
EXTENDS Integers, Sequences, FiniteSets, TLC

VARIABLES pc, args, context, loc, effects, tz, arg, ret

vars == <<pc, args, context, loc, effects, tz, arg, ret>>

---------------------------------------------------------------------------
(* Bounds of the model. *)

\* longest parts sequence given to generateSubject / the transformer
MaxParts == 4
\* longest schedule response the pipeline receives
MaxRunParts == 4
\* longest text given to cleanString
MaxLen == 3

---------------------------------------------------------------------------
(* JavaScript values. *)

Undefined == [t |-> "undefined"]
Null == [t |-> "null"]
Num(n) == [t |-> "number", n |-> n]
Str(s) == [t |-> "string", s |-> s]
Arr(a) == [t |-> "array", a |-> a]
Throw(e) == [t |-> "throw", e |-> e]
EmptyObject == [t |-> "object"]

IsThrow(v) == v.t = "throw"

\* ToBoolean: what `!x` and `x || y` test
Truthy(v) ==
  CASE v.t = "undefined" -> FALSE
    [] v.t = "null" -> FALSE
    [] v.t = "number" -> v.n # 0
    [] v.t = "string" -> v.s # ""
    [] OTHER -> TRUE

\* a || b
Or(a, b) == IF Truthy(a) THEN a ELSE b

\* o.f : undefined for a missing property and for a property of a number or
\* a string that has none; a TypeError on undefined and null
Prop(o, f) ==
  CASE o.t = "undefined" ->
         Throw("TypeError: Cannot read property '" \o f \o "' of undefined")
    [] o.t = "null" ->
         Throw("TypeError: Cannot read property '" \o f \o "' of null")
    [] o.t = "object" -> IF f \in DOMAIN o THEN o[f] ELSE Undefined
    [] OTHER -> Undefined

\* `${v}` : the string a template literal makes of a value
ToStr(v) ==
  CASE v.t = "undefined" -> "undefined"
    [] v.t = "null" -> "null"
    [] v.t = "number" -> ToString(v.n)
    [] v.t = "string" -> v.s
    [] OTHER -> "[object Object]"

\* a < b on numbers and undefined (undefined converts to NaN: false)
Less(a, b) == a.t = "number" /\ b.t = "number" /\ a.n < b.n

\* a > b
Greater(a, b) == Less(b, a)

---------------------------------------------------------------------------
(* Dates.  A Date is [t |-> "date", valid, time]: time in minutes since    *)
(* the epoch, UTC; tz is the host's offset from UTC in minutes.            *)

InvalidDate == [t |-> "date", valid |-> FALSE, time |-> 0]
DateAt(m) == [t |-> "date", valid |-> TRUE, time |-> m]

MinutesPerDay == 24 * 60

\* midnight UTC of 2019-01-15 (day 17911 of the epoch)
Midnight20190115 == 17911 * MinutesPerDay

\* new Date(x): undefined gives an invalid date, null the epoch, an ISO
\* date-only string midnight UTC of that day, a month-first string midnight
\* local time of that day, any other text an invalid date
NewDate(x, offset) ==
  CASE x.t = "undefined" -> InvalidDate
    [] x.t = "null" -> DateAt(0)
    [] x.t = "number" -> DateAt(x.n)
    [] x.t = "string" /\ x.s = "2019-01-15" -> DateAt(Midnight20190115)
    [] x.t = "string" /\ x.s = "01-15-2019" ->
         DateAt(Midnight20190115 - offset)
    [] OTHER -> InvalidDate

\* date.setHours(0, 0, 0, 0): midnight, local time, of the date's local day;
\* an invalid date stays invalid and nothing is thrown
SetHoursZero(d, offset) ==
  IF ~d.valid THEN d
  ELSE LET local == d.time + offset
       IN  DateAt(local - (local % MinutesPerDay) - offset)

normalizeDate(date) == SetHoursZero(NewDate(date, tz), tz)

Pad2(n) == IF n < 10 THEN "0" \o ToString(n) ELSE ToString(n)

\* the civil date [y, m, d] of a day counted from the epoch
CivilFromDays(days) ==
  LET z == days + 719468
      era == z \div 146097
      doe == z - era * 146097
      yoe == (doe - doe \div 1460 + doe \div 36524 - doe \div 146096) \div 365
      doy == doe - (365 * yoe + yoe \div 4 - yoe \div 100)
      mp == (5 * doy + 2) \div 153
      d == doy - (153 * mp + 2) \div 5 + 1
      m == IF mp < 10 THEN mp + 3 ELSE mp - 9
      y == yoe + era * 400 + (IF m <= 2 THEN 1 ELSE 0)
  IN  [y |-> y, m |-> m, d |-> d]

\* date.toISOString(): YYYY-MM-DDTHH:mm:ss.sssZ in UTC; a RangeError on an
\* invalid date
toISOString(d) ==
  IF ~d.valid THEN Throw("RangeError: Invalid time value")
  ELSE LET c == CivilFromDays(d.time \div MinutesPerDay)
           mins == d.time % MinutesPerDay
       IN  Str(ToString(c.y) \o "-" \o Pad2(c.m) \o "-" \o Pad2(c.d) \o "T"
               \o Pad2(mins \div 60) \o ":" \o Pad2(mins % 60) \o ":00.000Z")

\* moment(date, 'MM-DD-YYYY').format('MM/DD/YYYY'): given a Date, moment
\* takes it as it is and formats its local day
momentFormat(d) ==
  IF ~d.valid THEN "Invalid date"
  ELSE LET c == CivilFromDays((d.time + tz) \div MinutesPerDay)
       IN  Pad2(c.m) \o "/" \o Pad2(c.d) \o "/" \o ToString(c.y)

---------------------------------------------------------------------------
(* Program lookups. *)

\* String.prototype.toLowerCase on the program names the model supplies
toLowerCase(s) ==
  CASE s = "Tanach" -> "tanach"
    [] s = "NACH" -> "nach"
    [] s = "Mishna" -> "mishna"
    [] OTHER -> s

getTemplateFilePathsFromProgram(program) ==
  CASE program \in {"tanach", "nach"} ->
         [html |-> "./templates/tanach.html", text |-> "./templates/tanach.txt"]
    [] program = "mishna" ->
         [html |-> "./templates/mishna.html", text |-> "./templates/mishna.txt"]
    [] program = "parasha" ->
         [html |-> "./templates/parasha.html", text |-> "./templates/parasha.txt"]
    [] OTHER -> [html |-> "", text |-> ""]

getProgramPathFromProgram(program) ==
  CASE program \in {"tanach", "nach"} -> "tanach-study"
    [] program = "mishna" -> "mishna-study"
    [] program = "parasha" -> "parasha-study"
    [] OTHER -> ""

getProgramNameFromProgram(program) ==
  CASE program \in {"tanach", "nach"} -> "Tanach Study"
    [] program = "mishna" -> "Mishna Study"
    [] program = "parasha" -> "Parasha Study"
    [] OTHER -> ""

\* the URL getDataByProgramByDateAsync fetches
getDataByProgramByDateAsync(programPath, date) ==
  "https://api.tanachstudy.com/" \o ToStr(programPath) \o "/schedule/" \o ToStr(date)

---------------------------------------------------------------------------
(* The Data Transformer. *)

SponsorshipAvailable == Str("Sponsorship Available")

\* apiData[i] of a JavaScript array, counted from 0
At(a, i) == IF i + 1 \in DOMAIN a.a THEN a.a[i + 1] ELSE Undefined

\* the callback of apiData.map
MapPart(p, programPath, segment, section) ==
  LET q == Or(p, EmptyObject)
      unit == Prop(q, "unit")
      part == Prop(q, "part")
      audio == Or(Prop(q, "audio_url"), EmptyObject)
      host == Prop(audio, "host")
      path == Prop(audio, "path")
  IN  [t |-> "object",
       unit |-> unit,
       part |-> part,
       partTitle |-> Prop(q, "part_title"),
       audioURL |-> Str(ToStr(host) \o ToStr(path)),
       pageURL |-> Str("https://tanachstudy.com/" \o ToStr(programPath)
                       \o "/perek/" \o ToStr(segment) \o "/" \o ToStr(section)
                       \o "/" \o ToStr(unit) \o "?part=" \o ToStr(part))]

\* the fallback taken for undefined and null alone (??, not ||)
SponsorOrDefaultNullish(sponsor) ==
  IF sponsor.t \in {"undefined", "null"} THEN SponsorshipAvailable ELSE sponsor

\* sponsor || 'Sponsorship Available'
SponsorOrDefault(sponsor) == Or(sponsor, SponsorshipAvailable)

\* the page URL built from each record's own segment and section
MappedPartsOwnSection(a, programPath, segment, section) ==
  [i \in DOMAIN a |->
     MapPart(a[i], programPath, Prop(Or(a[i], EmptyObject), "segment"),
             Prop(Or(a[i], EmptyObject), "section"))]

MappedParts(a, programPath, segment, section) ==
  [i \in DOMAIN a |-> MapPart(a[i], programPath, segment, section)]

transformAPIDataToTemplateData(apiData, ctx) ==
  IF apiData.t \in {"undefined", "null"} THEN Prop(apiData, "0")
  ELSE IF apiData.t # "array" THEN Throw("TypeError: apiData.map is not a function")
  ELSE
    LET programPath == Prop(Or(ctx, EmptyObject), "programPath")
        first == Or(At(apiData, 0), EmptyObject)
        segment == Prop(first, "segment")
        section == Prop(first, "section")
    IN  [t |-> "object",
         segmentName |-> Prop(first, "segment_name"),
         segmentTitle |-> Prop(first, "segment_title"),
         segmentSponsor |-> SponsorOrDefault(Prop(first, "segment_sponsor")),
         sectionName |-> Prop(first, "section_name"),
         sectionTitle |-> Prop(first, "section_title"),
         sectionSponsor |-> SponsorOrDefault(Prop(first, "section_sponsor")),
         parts |-> Arr(MappedParts(apiData.a, programPath, segment, section))]

---------------------------------------------------------------------------
(* The Subject/Campaign Namer. *)

\* the callbacks of the four parts.reduce calls: (a, cur) =>
\* (cur.f < a.f ? cur.f : a.f) and its mirror with >.  cur.f is read first,
\* then a.f; reading a property of undefined throws
MinCallback(a, cur, f) ==
  LET c == Prop(cur, f)
      b == Prop(a, f)
  IN  IF IsThrow(c) THEN c
      ELSE IF IsThrow(b) THEN b
      ELSE IF Less(c, b) THEN c ELSE b

MaxCallback(a, cur, f) ==
  LET c == Prop(cur, f)
      b == Prop(a, f)
  IN  IF IsThrow(c) THEN c
      ELSE IF IsThrow(b) THEN b
      ELSE IF Greater(c, b) THEN c ELSE b

\* Array.prototype.reduce with no initial value: the accumulator starts as
\* the first ELEMENT and the callback runs from the second element on; an
\* empty array throws.  A throw of the callback ends the fold.
RECURSIVE ReduceFrom(_, _, _, _, _)
ReduceFrom(min, f, acc, s, i) ==
  IF IsThrow(acc) \/ i > Len(s) THEN acc
  ELSE ReduceFrom(min, f,
                  IF min THEN MinCallback(acc, s[i], f) ELSE MaxCallback(acc, s[i], f),
                  s, i + 1)

Reduce(min, f, s) ==
  IF Len(s) = 0 THEN Throw("TypeError: Reduce of empty array with no initial value")
  ELSE ReduceFrom(min, f, s[1], s, 2)

\* the text range of the subject, from the four folded values
TextPortion(startUnit, startPart, endUnit, endPart) ==
  IF startUnit = endUnit
  THEN IF startPart = endPart
       THEN ToStr(startUnit) \o ":" \o ToStr(startUnit)
       ELSE ToStr(startUnit) \o ":" \o ToStr(startUnit) \o "-" \o ToStr(endPart)
  ELSE ToStr(startUnit) \o ":" \o ToStr(startUnit) \o " - " \o ToStr(endUnit)
       \o ":" \o ToStr(endPart)

\* the four folds of generateSubject, in the order the code runs them; the
\* first throw ends the function
SubjectRange(parts) ==
  LET startUnit == Reduce(TRUE, "unit", parts)
      startPart == Reduce(TRUE, "part", parts)
      endUnit == Reduce(FALSE, "unit", parts)
      endPart == Reduce(FALSE, "part", parts)
  IN  [startUnit |-> startUnit, startPart |-> startPart,
       endUnit |-> endUnit, endPart |-> endPart]

generateSubject(ctx, templateData) ==
  LET parts == Prop(templateData, "parts")
  IN  IF parts.t # "array"
      THEN IF IsThrow(Prop(parts, "reduce")) THEN Prop(parts, "reduce")
           ELSE Throw("TypeError: parts.reduce is not a function")
      ELSE LET r == SubjectRange(parts.a)
           IN  IF IsThrow(r.startUnit) THEN r.startUnit
               ELSE IF IsThrow(r.startPart) THEN r.startPart
               ELSE IF IsThrow(r.endUnit) THEN r.endUnit
               ELSE IF IsThrow(r.endPart) THEN r.endPart
               ELSE Str(ToStr(Prop(templateData, "sectionName")) \o " "
                        \o ToStr(Prop(templateData, "sectionTitle")) \o ": "
                        \o TextPortion(r.startUnit, r.startPart, r.endUnit, r.endPart))

\* `TEST ${Date.now()} ${subject} - ${formatted}`
generateCampaignName(ctx, subject, now) ==
  Str("TEST " \o ToString(now) \o " " \o ToStr(subject) \o " - "
      \o momentFormat(Prop(ctx, "date")))

---------------------------------------------------------------------------
(* The Request Builder.  A body is a sequence of UTF-16 code units. *)

\* the largest code unit cleanString keeps
MaxAscii == 127

\* the loop of cleanString: output += input.charAt(i) when charCodeAt(i) <= 127
RECURSIVE CleanFrom(_, _, _)
CleanFrom(input, i, output) ==
  IF i > Len(input) THEN output
  ELSE CleanFrom(input, i + 1,
                 IF input[i] <= MaxAscii THEN Append(output, input[i]) ELSE output)

\* cleanString keeping every code unit of one byte
cleanStringLatin1(input) == SelectSeq(input, LAMBDA c : c <= 255)

cleanString(input) == CleanFrom(input, 1, <<>>)

\* the UTF-8 bytes of one code unit of the Basic Multilingual Plane
Utf8Bytes(c) ==
  IF c < 128 THEN <<c>>
  ELSE IF c < 2048 THEN <<192 + (c \div 64), 128 + (c % 64)>>
  ELSE <<224 + (c \div 4096), 128 + ((c \div 64) % 64), 128 + (c % 64)>>

\* iconv.encode(text, 'utf8')
RECURSIVE iconvEncodeUtf8(_)
iconvEncodeUtf8(text) ==
  IF text = <<>> THEN <<>>
  ELSE Utf8Bytes(Head(text)) \o iconvEncodeUtf8(Tail(text))

\* iconv.decode(bytes, 'iso-8859-1'): one code unit per byte, of the byte's value
iconvDecodeLatin1(bytes) == [i \in DOMAIN bytes |-> bytes[i]]

\* the body the create request carries for a rendered text
RequestBody(rendered) == iconvDecodeLatin1(iconvEncodeUtf8(cleanString(rendered)))

generateConstantContactEmailRequest(ctx, templateData, renderedHTML, renderedText, now) ==
  LET fromName == Prop(ctx, "fromName")
      fromEmail == Prop(ctx, "fromEmail")
      replyEmail == Prop(ctx, "replyEmail")
      subject == generateSubject(ctx, templateData)
  IN  IF IsThrow(subject) THEN subject
      ELSE [t |-> "object",
            name |-> generateCampaignName(ctx, subject, now),
            subject |-> subject,
            from_name |-> fromName,
            from_email |-> fromEmail,
            reply_to_email |-> Or(replyEmail, fromEmail),
            is_view_as_webpage_enabled |-> TRUE,
            view_as_web_page_text |-> Str("View this email as a web page"),
            view_as_web_page_link_text |-> Str("Click here to view as web page"),
            email_content |-> RequestBody(renderedHTML),
            text_content |-> RequestBody(renderedText),
            email_content_format |-> Str("HTML")]

\* the function's body reads campaignName, a name no scope around it
\* declares: evaluating the object literal throws before anything is built
generateConstantContactScheduleRequest(ctx, campaignID) ==
  Throw("ReferenceError: campaignName is not defined")

\* the parser without its error check
parseCreateResponseUnchecked(response) == Prop(response, "id")

parseConstantContactEmailCreateResponse(response) ==
  LET obj == IF response.t = "array" THEN Or(At(response, 0), EmptyObject)
             ELSE EmptyObject
  IN  IF response.t = "array" /\ Truthy(Prop(obj, "error_key"))
      THEN Throw("ERROR " \o ToStr(Prop(obj, "error_key")) \o ": "
                 \o ToStr(Prop(obj, "error_message")))
      ELSE Prop(response, "id")

---------------------------------------------------------------------------
(* The Template Renderer.  handlebars and html-minifier are libraries: the *)
(* expansion of a template is an input of the model, and of minify the     *)
(* model keeps collapseWhitespace on text without markup.  The text is     *)
(* trimmed at both ends and every run of white space becomes one space,    *)
(* except that a run that is a single tab stays a tab and that no-break    *)
(* spaces (160) are kept, the white space around them collapsing.          *)

\* the white space html-minifier collapses: tab, line feed, form feed,
\* carriage return, space
IsSpace(c) == c \in {9, 10, 12, 13, 32}

\* the last index of the group of white space that starts at i
RECURSIVE GroupEnd(_, _)
GroupEnd(html, i) ==
  IF i < Len(html) /\ IsSpace(html[i + 1]) THEN GroupEnd(html, i + 1) ELSE i

\* what a group of white space html[i..j] becomes: nothing at either end of
\* the text, a tab when it is a single tab with no no-break space beside it,
\* one space otherwise
Collapsed(html, i, j) ==
  IF i = 1 \/ j = Len(html) THEN <<>>
  ELSE IF i = j /\ html[i] = 9 /\ html[i - 1] # 160 /\ html[i + 1] # 160
  THEN <<9>>
  ELSE <<32>>

RECURSIVE CollapseFrom(_, _, _)
CollapseFrom(html, i, output) ==
  IF i > Len(html) THEN output
  ELSE IF ~IsSpace(html[i])
  THEN CollapseFrom(html, i + 1, Append(output, html[i]))
  ELSE LET j == GroupEnd(html, i)
       IN  CollapseFrom(html, j + 1, output \o Collapsed(html, i, j))

minify(html) == CollapseFrom(html, 1, <<>>)

\* renderTemplateFromData(source, data), html being template(data)
renderTemplateFromData(html) == minify(html)

---------------------------------------------------------------------------
(* The inputs of a run. *)

ProgramArgs == {Undefined, Str(""), Str("Tanach"), Str("mishna"), Str("bogus")}
DateArgs == {Undefined, Null, Str("2019-01-15"), Str("01-15-2019"), Str("tomorrow")}
ListsArgs == {Undefined, Arr(<<>>), Arr(<<Str("1234567")>>)}
ReplyToArgs == {Undefined, Str("reply@tanachstudy.com")}
FromName == Str("Tanach Study")
FromEmail == Str("info@tanachstudy.com")

\* offsets of the host's time zone from UTC, in minutes
Offsets == {-300, 120}

\* Date.now() at the time the campaign is named
NowValues == {Midnight20190115 - 600, Midnight20190115 - 599}

\* a record of the Schedule Source
Record(unit, part, sponsor) ==
  [t |-> "object",
   segment_name |-> Str("Neviim Rishonim"), segment_title |-> Str("Early Prophets"),
   segment_sponsor |-> sponsor,
   section_name |-> Str("Sefer"), section_title |-> Str("Yehoshua"),
   section_sponsor |-> sponsor,
   segment |-> Str("neviim-rishonim"), section |-> Str("yehoshua"),
   unit |-> Num(unit), part |-> Num(part),
   part_title |-> Str("Perek " \o ToString(unit)),
   audio_url |-> [t |-> "object", host |-> Str("https://cdn.tanachstudy.com/"),
                  path |-> Str("archives/" \o ToString(unit) \o "-" \o ToString(part)
                               \o ".mp3")]]

SeqsUpTo(S, n) == UNION {[1..k -> S] : k \in 0..n}

RunRecords == {Record(3, 5, Undefined), Record(4, 7, Str("The Cohen Family"))}

\* what the Schedule Source answers: a body that is no JSON, or JSON
JsonBody(v) == [json |-> TRUE, value |-> v]
NotJson == [json |-> FALSE, value |-> Undefined]
ScheduleBodies ==
  {NotJson, JsonBody(Null), JsonBody(EmptyObject)}
    \cup {JsonBody(Arr(a)) : a \in SeqsUpTo(RunRecords, MaxRunParts)}

\* what handlebars makes of a template: "A", and "A  <aleph>" with two spaces
Expansions == {<<65>>, <<65, 32, 32, 1488>>}

\* what the Campaign Sink answers
CreatedCampaign == [t |-> "object", id |-> Str("1100394165290")]
ErrorObject ==
  [t |-> "object", error_key |-> Str("http.status.unauthorized"),
   error_message |-> Str("Access denied")]
\* an element that has error_key, with the empty string for its value
EmptyKeyErrorObject ==
  [t |-> "object", error_key |-> Str(""), error_message |-> Str("Access denied")]
SinkBodies ==
  {NotJson, JsonBody(CreatedCampaign), JsonBody(Arr(<<ErrorObject>>)),
   JsonBody(Arr(<<EmptyKeyErrorObject>>)),
   JsonBody(Arr(<<>>)), JsonBody(Arr(<<EmptyObject>>)), JsonBody(EmptyObject),
   JsonBody(Null)}

\* a const of run's try block before its declaration has run
Unassigned == [t |-> "unassigned"]

\* the locals of run (response: the Response the next parse reads;
\* htmlExpanded, textExpanded: what template(data) gave inside the two calls
\* of renderTemplateFromData), the exception that left the entry point, the
\* exit code of the process, and the entry point that was called
NoLocals ==
  [htmlTemplate |-> Unassigned, textTemplate |-> Unassigned, response |-> Unassigned,
   apiData |-> Unassigned, templateData |-> Unassigned,
   htmlExpanded |-> <<>>, textExpanded |-> <<>>,
   htmlRendered |-> <<>>, textRendered |-> <<>>,
   generateEmailRequest |-> Unassigned, ccEmailApiData |-> Unassigned,
   campaignID |-> Unassigned, scheduleApiRequest |-> Unassigned,
   ccScheduleApiData |-> Unassigned, exitCode |-> Undefined,
   thrown |-> Undefined, entry |-> ""]

Init ==
  /\ pc = "start"
  /\ args \in [program : ProgramArgs, date : DateArgs, lists : ListsArgs,
               fromName : {FromName}, fromEmail : {FromEmail}, replyTo : ReplyToArgs]
  /\ context = Undefined
  /\ loc = NoLocals
  /\ effects = <<>>
  /\ tz \in Offsets
  /\ arg = <<>>
  /\ ret = <<>>

---------------------------------------------------------------------------
(* The entry points. *)

validateListsInput(lists) ==
  IF ~Truthy(lists) \/ (lists.t = "array" /\ Len(lists.a) = 0)
  THEN Throw("Must specify a minimum of one list")
  ELSE lists

\* the context object literal of main and of cli
BuildContext(a, lists) ==
  LET normalizedProgram == toLowerCase(a.program.s)
  IN  [t |-> "object",
       program |-> Str(normalizedProgram),
       programPath |-> Str(getProgramPathFromProgram(normalizedProgram)),
       programName |-> Str(getProgramNameFromProgram(normalizedProgram)),
       date |-> normalizeDate(a.date),
       lists |-> lists,
       fromName |-> a.fromName,
       fromEmail |-> a.fromEmail,
       replyTo |-> a.replyTo]

\* the paths run reads its templates from
TemplatePaths(ctx) ==
  getTemplateFilePathsFromProgram(ToStr(Prop(Or(ctx, EmptyObject), "program")))

\* run, entered: everything up to its first await.  It loads the
\* environment and asks for the HTML template
EnterRun(ctx, entry) ==
  /\ pc' = "loadHtml"
  /\ context' = ctx
  /\ loc' = [loc EXCEPT !.entry = entry]
  /\ effects' = effects \o <<[op |-> "dotenv.config"],
                            [op |-> "readFile", file |-> TemplatePaths(ctx).html]>>
  /\ UNCHANGED <<args, tz, arg, ret>>

\* an exception that leaves main or cli: run is never called
ThrowFromEntry(e, entry) ==
  /\ pc' = "thrown"
  /\ loc' = [loc EXCEPT !.thrown = e, !.entry = entry]
  /\ UNCHANGED <<args, context, effects, tz, arg, ret>>

\* main(programArg, dateArg, listsArg, fromNameArg, fromEmailArg, replyToArg)
Main ==
  /\ pc = "start"
  /\ IF ~Truthy(args.program)
     THEN ThrowFromEntry(Throw("must specify program argument"), "main")
     ELSE LET lists == validateListsInput(args.lists)
          IN  IF IsThrow(lists) THEN ThrowFromEntry(lists, "main")
              ELSE EnterRun(BuildContext(args, lists), "main")

\* cli(): argparse has made program, date, fromName and fromEmail strings
\* and lists a list of at least one string, or has ended the process
Cli ==
  /\ pc = "start"
  /\ args.program.t = "string"
  /\ args.date.t = "string"
  /\ args.lists.t = "array" /\ Len(args.lists.a) > 0
  /\ LET lists == validateListsInput(args.lists)
     IN  IF IsThrow(lists) THEN ThrowFromEntry(lists, "cli")
         ELSE EnterRun(BuildContext(args, lists), "cli")

---------------------------------------------------------------------------
(* run(context): one action per await. *)

\* a catch block that reports the error and lets the process end normally
CatchSwallow(l, fx, e) ==
  /\ pc' = "done"
  /\ loc' = [l EXCEPT !.exitCode = Num(0)]
  /\ effects' = Append(fx, [op |-> "console.error", e |-> e])
  /\ UNCHANGED <<args, context, tz, arg, ret>>

\* the catch block of run, reached with the locals l assigned and the
\* effects fx made so far: console.error(e); process.exit(1)
Catch(l, fx, e) ==
  /\ pc' = "exit"
  /\ loc' = [l EXCEPT !.exitCode = Num(1)]
  /\ effects' = fx \o <<[op |-> "console.error", e |-> e],
                        [op |-> "process.exit", code |-> 1]>>
  /\ UNCHANGED <<args, context, tz, arg, ret>>

\* what a fetch that fails settles with
Rejected == [json |-> FALSE, value |-> Throw("FetchError: request failed")]

\* res.json(): the parsed body, or the SyntaxError rethrown
parseFetchResponseAsJSONAsync(res) ==
  IF res.json THEN res.value
  ELSE Throw("FetchError: invalid json response body")

\* await getDataFromFileAsync(htmlTemplateFilePath)
ReadHtmlTemplate ==
  /\ pc = "loadHtml"
  /\ LET paths == TemplatePaths(context)
     IN  \E ok \in BOOLEAN :
           /\ ok => paths.html # ""
           /\ IF ~ok
              THEN Catch(loc, effects,
                         "ENOENT: no such file or directory, open '" \o paths.html \o "'")
              ELSE /\ pc' = "loadText"
                   /\ loc' = [loc EXCEPT !.htmlTemplate = Str("contents of " \o paths.html)]
                   /\ effects' = Append(effects, [op |-> "readFile", file |-> paths.text])
                   /\ UNCHANGED <<args, context, tz, arg, ret>>

\* await getDataFromFileAsync(textTemplateFilePath), then
\* getDataByProgramByDateAsync(programPath, date.toISOString())
ReadTextTemplate ==
  /\ pc = "loadText"
  /\ LET paths == TemplatePaths(context)
         l == [loc EXCEPT !.textTemplate = Str("contents of " \o paths.text)]
         iso == toISOString(Prop(context, "date"))
     IN  \E ok \in BOOLEAN :
           /\ ok => paths.text # ""
           /\ IF ~ok
              THEN Catch(loc, effects,
                         "ENOENT: no such file or directory, open '" \o paths.text \o "'")
              ELSE IF IsThrow(iso) THEN Catch(l, effects, iso.e)
              ELSE /\ pc' = "fetch"
                   /\ loc' = l
                   /\ effects' = Append(effects,
                        [op |-> "fetch",
                         url |-> getDataByProgramByDateAsync(
                                   Prop(context, "programPath"), iso)])
                   /\ UNCHANGED <<args, context, tz, arg, ret>>

\* the fetch of the schedule settles
FetchSchedule ==
  /\ pc = "fetch"
  /\ \E res \in ScheduleBodies \cup {Rejected} :
       IF IsThrow(res.value) THEN Catch(loc, effects, res.value.e)
       ELSE /\ pc' = "parseSchedule"
            /\ loc' = [loc EXCEPT !.response = res]
            /\ UNCHANGED <<args, context, effects, tz, arg, ret>>

\* await parseFetchResponseAsJSONAsync(apiResponse), the transformation, the
\* two renderings, and writeDataToFileAsync('test.html', htmlRendered)
ParseSchedule ==
  /\ pc = "parseSchedule"
  /\ LET apiData == parseFetchResponseAsJSONAsync(loc.response)
         templateData == transformAPIDataToTemplateData(apiData, context)
     IN  IF IsThrow(apiData) THEN Catch(loc, effects, apiData.e)
         ELSE IF IsThrow(templateData)
         THEN Catch([loc EXCEPT !.apiData = apiData], effects, templateData.e)
         ELSE \E html \in Expansions, text \in Expansions :
                /\ pc' = "writeHtml"
                /\ loc' = [loc EXCEPT !.apiData = apiData,
                                      !.templateData = templateData,
                                      !.htmlExpanded = html,
                                      !.textExpanded = text,
                                      !.htmlRendered = renderTemplateFromData(html),
                                      !.textRendered = renderTemplateFromData(text)]
                /\ effects' = Append(effects,
                     [op |-> "writeFile", file |-> "test.html",
                      data |-> renderTemplateFromData(html)])
                /\ UNCHANGED <<args, context, tz, arg, ret>>

\* await writeDataToFileAsync('test.html', ...), then the write of test.txt
WriteHtml ==
  /\ pc = "writeHtml"
  /\ \E ok \in BOOLEAN :
       IF ~ok THEN Catch(loc, effects, "EACCES: permission denied, open 'test.html'")
       ELSE /\ pc' = "writeText"
            /\ effects' = Append(effects,
                 [op |-> "writeFile", file |-> "test.txt", data |-> loc.textRendered])
            /\ UNCHANGED <<args, context, loc, tz, arg, ret>>

\* await writeDataToFileAsync('test.txt', ...), then the create request is
\* built and posted
WriteText ==
  /\ pc = "writeText"
  /\ \E ok \in BOOLEAN, now \in NowValues :
       LET req == generateConstantContactEmailRequest(
                    context, loc.templateData, loc.htmlRendered, loc.textRendered, now)
       IN  IF ~ok THEN Catch(loc, effects, "EACCES: permission denied, open 'test.txt'")
           ELSE IF IsThrow(req) THEN Catch(loc, effects, req.e)
           ELSE /\ pc' = "postCreate"
                /\ loc' = [loc EXCEPT !.generateEmailRequest = req]
                /\ effects' = Append(effects,
                     [op |-> "post", api |-> "create", body |-> req])
                /\ UNCHANGED <<args, context, tz, arg, ret>>

\* a POST to the Campaign Sink settles: the create call, or the schedule call
SinkSettles ==
  /\ pc \in {"postCreate", "postSchedule"}
  /\ \E res \in SinkBodies \cup {Rejected} :
       IF IsThrow(res.value) THEN Catch(loc, effects, res.value.e)
       ELSE /\ pc' = IF pc = "postCreate" THEN "parseCreate" ELSE "parseScheduled"
            /\ loc' = [loc EXCEPT !.response = res]
            /\ UNCHANGED <<args, context, effects, tz, arg, ret>>

\* await parseFetchResponseAsJSONAsync of a sink response.  After the create
\* call: the campaign id is parsed, the schedule request built and posted.
\* After the schedule call: finish(ccScheduleApiData)
ParseSinkResponse ==
  /\ pc \in {"parseCreate", "parseScheduled"}
  /\ LET data == parseFetchResponseAsJSONAsync(loc.response)
         campaignID == parseConstantContactEmailCreateResponse(data)
         withData == [loc EXCEPT !.ccEmailApiData = data]
         withID == [withData EXCEPT !.campaignID = campaignID]
         req == generateConstantContactScheduleRequest(context, campaignID)
     IN  IF IsThrow(data) THEN Catch(loc, effects, data.e)
         ELSE IF pc = "parseScheduled"
         THEN /\ pc' = "done"
              /\ loc' = [loc EXCEPT !.ccScheduleApiData = data, !.exitCode = Num(0)]
              /\ effects' = Append(effects, [op |-> "console.log", v |-> data])
              /\ UNCHANGED <<args, context, tz, arg, ret>>
         ELSE IF IsThrow(campaignID) THEN Catch(withData, effects, campaignID.e)
         ELSE IF IsThrow(req) THEN Catch(withID, effects, req.e)
         ELSE /\ pc' = "postSchedule"
              /\ loc' = [withID EXCEPT !.scheduleApiRequest = req]
              /\ effects' = Append(effects,
                   [op |-> "post", api |-> "schedule", body |-> req])
              /\ UNCHANGED <<args, context, tz, arg, ret>>

Next ==
  \/ Main
  \/ Cli
  \/ ReadHtmlTemplate
  \/ ReadTextTemplate
  \/ FetchSchedule
  \/ ParseSchedule
  \/ WriteHtml
  \/ WriteText
  \/ SinkSettles
  \/ ParseSinkResponse

Spec == Init /\ [][Next]_vars

---------------------------------------------------------------------------
(* The Data Transformer and the Subject Namer on their own: a schedule     *)
(* response is drawn, transformed, and the subject is made of the result.  *)

\* the (unit, part) pairs of the records drawn
UnitParts == {<<3, 5>>, <<3, 7>>, <<2, 1>>, <<4, 9>>}

\* a sponsor field: absent, null, empty, present
Sponsors == {Undefined, Null, Str(""), Str("The Cohen Family")}

\* record i of a drawn response.  The first record carries the drawn
\* sponsors; the later records are of another section, with another sponsor
DataRecord(i, pair, segmentSponsor, sectionSponsor) ==
  IF i = 1
  THEN [Record(pair[1], pair[2], sectionSponsor) EXCEPT
          !.segment_sponsor = segmentSponsor]
  ELSE [Record(pair[1], pair[2], Str("Anonymous")) EXCEPT
          !.section = Str("shofetim"), !.segment = Str("neviim")]

DataArgs ==
  [program : {Str("tanach"), Str("mishna")}, date : {Str("2019-01-15")},
   lists : {Arr(<<Str("1234567")>>)}, fromName : {FromName},
   fromEmail : {FromEmail}, replyTo : {Undefined}]

InitData ==
  /\ pc = "transform"
  /\ tz = 0
  /\ args \in DataArgs
  /\ context = BuildContext(args, args.lists)
  /\ loc = NoLocals
  /\ effects = <<>>
  /\ \E pairs \in SeqsUpTo(UnitParts, MaxParts), s1 \in Sponsors, s2 \in Sponsors :
       arg = Arr([i \in DOMAIN pairs |-> DataRecord(i, pairs[i], s1, s2)])
  /\ ret = <<>>

\* templateData = transformAPIDataToTemplateData(apiData, context)
Transform ==
  /\ pc = "transform"
  /\ pc' = "subject"
  /\ loc' = [loc EXCEPT !.apiData = arg,
                        !.templateData = transformAPIDataToTemplateData(arg, context)]
  /\ UNCHANGED <<args, context, effects, tz, arg, ret>>

\* subject = generateSubject(context, templateData)
Subject ==
  /\ pc = "subject"
  /\ pc' = "returned"
  /\ ret' = generateSubject(context, loc.templateData)
  /\ UNCHANGED <<args, context, loc, effects, tz, arg>>

NextData == Transform \/ Subject

SpecData == InitData /\ [][NextData]_vars

---------------------------------------------------------------------------
(* cleanString and the bodies of the create request on their own. *)

\* code units: line feed, space, A, DEL, U+0080, e acute, aleph
CodeUnits == {10, 32, 65, 127, 128, 233, 1488}

\* a template data to build the request around
SampleTemplateData ==
  transformAPIDataToTemplateData(
    Arr(<<Record(3, 5, Undefined), Record(3, 7, Undefined)>>),
    [t |-> "object", programPath |-> Str("tanach-study")])

InitClean ==
  /\ pc = "clean"
  /\ tz = 0
  /\ args \in {a \in DataArgs : a.program = Str("tanach")}
  /\ context = BuildContext(args, args.lists)
  /\ loc = [NoLocals EXCEPT !.templateData = SampleTemplateData]
  /\ effects = <<>>
  /\ arg \in [html : SeqsUpTo(CodeUnits, MaxLen), text : Expansions \cup {<<>>}]
  /\ ret = [once |-> <<>>, twice |-> <<>>]

\* cleanString(renderedHTML)
Clean ==
  /\ pc = "clean"
  /\ pc' = "cleaned"
  /\ ret' = [ret EXCEPT !.once = cleanString(arg.html)]
  /\ UNCHANGED <<args, context, loc, effects, tz, arg>>

\* cleanString of what cleanString returned
CleanAgain ==
  /\ pc = "cleaned"
  /\ pc' = "cleanedTwice"
  /\ ret' = [ret EXCEPT !.twice = cleanString(ret.once)]
  /\ UNCHANGED <<args, context, loc, effects, tz, arg>>

\* generateConstantContactEmailRequest(context, templateData, html, text)
BuildRequest ==
  /\ pc = "cleanedTwice"
  /\ pc' = "built"
  /\ \E now \in NowValues :
       loc' = [loc EXCEPT !.htmlRendered = arg.html, !.textRendered = arg.text,
                 !.generateEmailRequest =
                   generateConstantContactEmailRequest(
                     context, loc.templateData, arg.html, arg.text, now)]
  /\ UNCHANGED <<args, context, effects, tz, arg, ret>>

NextClean == Clean \/ CleanAgain \/ BuildRequest

SpecClean == InitClean /\ [][NextClean]_vars

---------------------------------------------------------------------------
(* Properties of the pipeline (Spec). *)

Posts(api) == {i \in DOMAIN effects : effects[i].op = "post" /\ effects[i].api = api}

Errors == {i \in DOMAIN effects : effects[i].op = "console.error"}

Ended == pc \in {"done", "exit"}

\* the sink answered the create call with a created campaign
CreateSucceeded ==
  /\ loc.ccEmailApiData.t = "object"
  /\ Truthy(Prop(loc.ccEmailApiData, "id"))

\* C1: a run in which the sink answered the create call with a created
\* campaign (an object with an id) has, when it ends, submitted a schedule
\* request to the sink and reported the sink's final answer.
C1_CreateIsFollowedBySchedule ==
  (Ended /\ CreateSucceeded) =>
     /\ Posts("schedule") # {}
     /\ effects[Len(effects)].op = "console.log"

\* the Response held is the Schedule Source's, and its body is no JSON
ScheduleBodyNotJson ==
  /\ loc.response = NotJson
  /\ loc.apiData = Unassigned

\* C2: when the Schedule Source's body is no JSON, the run, once the parse
\* has run, has exited with code 1 and no request has gone to the Campaign
\* Sink; and in every run, no request goes to the sink after an error was
\* reported.
C2_NotJsonAbortsBeforeSink ==
  /\ (ScheduleBodyNotJson /\ pc # "parseSchedule") =>
        /\ pc = "exit"
        /\ loc.exitCode = Num(1)
        /\ Posts("create") \cup Posts("schedule") = {}
  /\ \A i \in Errors : \A j \in Posts("create") \cup Posts("schedule") : j < i
  /\ Errors # {} => pc = "exit" /\ loc.exitCode = Num(1)

C2_Witness ==
  /\ ScheduleBodyNotJson
  /\ pc = "exit"
  /\ effects[Len(effects) - 1] =
       [op |-> "console.error", e |-> "FetchError: invalid json response body"]

\* the parse of the sink's answer to the create call has run, and the answer
\* was an array
CreateAnsweredArray ==
  /\ Posts("create") # {}
  /\ pc # "parseCreate"
  /\ loc.response # Unassigned
  /\ loc.response.json
  /\ loc.response.value.t = "array"

\* the error_key of the first element of the sink's answer
AnsweredErrorKey ==
  Prop(Or(At(loc.response.value, 0), EmptyObject), "error_key")

\* the sink answered the create call with an array whose first element has
\* error_key, whatever its value
CreateAnsweredWithErrorKey ==
  /\ CreateAnsweredArray
  /\ AnsweredErrorKey # Undefined

\* the sink answered the create call with an array whose first element has a
\* non-empty (truthy) error_key
CreateRejected ==
  /\ CreateAnsweredArray
  /\ Truthy(AnsweredErrorKey)

\* the sink answered the create call with an array whose first element has
\* an error_key that is present and empty (falsy)
CreateAnsweredWithEmptyErrorKey ==
  /\ CreateAnsweredWithErrorKey
  /\ ~Truthy(AnsweredErrorKey)

\* the error the run reported, if it reported one
ReportedError ==
  IF Errors = {} THEN "" ELSE effects[CHOOSE i \in Errors : TRUE].e

\* parseConstantContactEmailCreateResponse has returned a value
ParserReturned == loc.campaignID # Unassigned

\* the error is raised with the sink's key and message, the run exits with
\* code 1, and no schedule request is built or submitted
ErrorRaised ==
  /\ pc = "exit"
  /\ loc.exitCode = Num(1)
  /\ ~ParserReturned
  /\ ReportedError =
       "ERROR " \o ToStr(Prop(At(loc.response.value, 0), "error_key")) \o ": "
         \o ToStr(Prop(At(loc.response.value, 0), "error_message"))
  /\ loc.scheduleApiRequest = Unassigned
  /\ Posts("schedule") = {}

\* the first half of C3 as claimed: an answer whose first element has
\* error_key is raised
C3_ErrorKeyAnswerRaised == CreateAnsweredWithErrorKey => ErrorRaised

\* the first half of C3 as amended: an answer whose first element has a
\* non-empty error_key is raised
C3_ErrorAnswerRaised == CreateRejected => ErrorRaised

\* C3 as claimed: an answer whose first element has error_key is raised (as
\* above), and whenever the parser returns, what it returns is the id of a
\* created campaign.
C3_ReturnedValueIsCampaignId ==
  /\ C3_ErrorKeyAnswerRaised
  /\ ParserReturned =>
        /\ CreateSucceeded
        /\ loc.campaignID = loc.ccEmailApiData.id

\* C3 as amended: an answer whose first element has a non-empty (truthy)
\* error_key is raised (as above); an answer whose first element has an
\* empty error_key is not raised, the parser returns undefined for it; and
\* whenever the parser returns, what it returns is the id property of the
\* answer: the campaign id when the answer is a created campaign, and
\* undefined when the answer is an object without id, an empty array or an
\* array whose first element has no error_key or an empty one.
C3_ReturnedValueIsIdProperty ==
  /\ C3_ErrorAnswerRaised
  /\ CreateAnsweredWithEmptyErrorKey =>
        /\ ParserReturned
        /\ loc.campaignID = Undefined
        /\ ReportedError = "ReferenceError: campaignName is not defined"
  /\ ParserReturned =>
        /\ CreateSucceeded => loc.campaignID = loc.ccEmailApiData.id
        /\ ~CreateSucceeded =>
             /\ loc.campaignID = Undefined
             /\ \/ loc.ccEmailApiData.t = "object"
                \/ /\ loc.ccEmailApiData.t = "array"
                   /\ ~Truthy(Prop(Or(At(loc.ccEmailApiData, 0), EmptyObject),
                                   "error_key"))

C3_Witness ==
  /\ CreateRejected
  /\ pc = "exit"
  /\ ReportedError = "ERROR http.status.unauthorized: Access denied"

\* C5: the create request's reply_to_email is the reply-to address given to
\* main or cli when one was given, and the sender email only when none was.
C5_ReplyToIsTheSuppliedAddress ==
  \A i \in Posts("create") :
     effects[i].body.reply_to_email =
       IF args.replyTo # Undefined THEN args.replyTo ELSE args.fromEmail

\* main was given no program, no date, or no list
MissingInput ==
  \/ ~Truthy(args.program)
  \/ args.date \in {Undefined, Null}
  \/ ~Truthy(args.lists)
  \/ args.lists = Arr(<<>>)

\* C9: called without a program, a date or a list, main throws before run is
\* entered: no context reaches run and nothing is read, fetched or posted.
C9_MissingInputThrowsBeforeRun ==
  (MissingInput /\ loc.entry = "main") =>
     /\ pc = "thrown"
     /\ IsThrow(loc.thrown)
     /\ context = Undefined
     /\ effects = <<>>

---------------------------------------------------------------------------
(* Properties of the transformer and the subject (SpecData). *)

\* the response drawn, and its (unit, part) pairs
Records == arg.a
N == Len(Records)
Pairs == [i \in DOMAIN Records |-> <<Records[i].unit.n, Records[i].part.n>>]

Transformed == pc \in {"subject", "returned"}

Min(S) == CHOOSE x \in S : \A y \in S : x <= y
Max(S) == CHOOSE x \in S : \A y \in S : x >= y

\* C4: the subject is "{sectionName} {sectionTitle}: {textRange}", the range
\* being "3:3" for the one part (3,5), "3:3-7" for the parts (3,5), (3,7) and
\* "2:2 - 4:9" for the parts (2,1), (4,9).
C4_SubjectOfTheThreeCases ==
  pc = "returned" =>
     /\ Pairs = << <<3, 5>> >> => ret = Str("Sefer Yehoshua: 3:3")
     /\ Pairs = << <<3, 5>>, <<3, 7>> >> => ret = Str("Sefer Yehoshua: 3:3-7")
     /\ Pairs = << <<2, 1>>, <<4, 9>> >> => ret = Str("Sefer Yehoshua: 2:2 - 4:9")

\* C10: for every response of N >= 1 records, the subject is built from the
\* least and greatest unit and the least and greatest part of all N parts.
C10_SubjectFromMinAndMax ==
  (pc = "returned" /\ N >= 1) =>
     LET units == {Pairs[i][1] : i \in DOMAIN Pairs}
         parts == {Pairs[i][2] : i \in DOMAIN Pairs}
     IN  ret = Str("Sefer Yehoshua: "
                   \o TextPortion(Num(Min(units)), Num(Min(parts)),
                                  Num(Max(units)), Num(Max(parts))))

\* C6: for every response of N >= 1 records, the template data has N parts
\* in the order of the records; part i carries record i's unit, part and
\* title, the audio host followed by the audio path, and the page URL
\* https://tanachstudy.com/{programPath}/perek/{segment}/{section}/{unit}?part={part}
\* with the first record's segment and section and record i's unit and part.
C6_PartsFollowTheRecords ==
  (Transformed /\ N >= 1) =>
     LET parts == loc.templateData.parts.a
     IN  /\ Len(parts) = N
         /\ \A i \in 1..N :
              /\ parts[i].unit = Records[i].unit
              /\ parts[i].part = Records[i].part
              /\ parts[i].partTitle = Records[i].part_title
              /\ parts[i].audioURL =
                   Str(Records[i].audio_url.host.s \o Records[i].audio_url.path.s)
              /\ parts[i].pageURL =
                   Str("https://tanachstudy.com/" \o context.programPath.s \o "/perek/"
                       \o Records[1].segment.s \o "/" \o Records[1].section.s \o "/"
                       \o ToString(Records[i].unit.n) \o "?part="
                       \o ToString(Records[i].part.n))

C6_Witness ==
  /\ Transformed
  /\ N >= 3
  /\ Records[2].section # Records[1].section
  /\ Records[3].unit # Records[1].unit
  /\ loc.templateData.parts.a[3].pageURL =
       Str("https://tanachstudy.com/mishna-study/perek/neviim-rishonim/yehoshua/4?part=9")

\* C7 as claimed: each sponsor of the template data is the literal
\* "Sponsorship Available" when the first record's sponsor is absent or null,
\* and the first record's sponsor unchanged for every present value.
C7_SponsorUnchangedWhenPresent ==
  (Transformed /\ N >= 1) =>
     /\ loc.templateData.sectionSponsor =
          IF Records[1].section_sponsor \in {Undefined, Null}
          THEN Str("Sponsorship Available") ELSE Records[1].section_sponsor
     /\ loc.templateData.segmentSponsor =
          IF Records[1].segment_sponsor \in {Undefined, Null}
          THEN Str("Sponsorship Available") ELSE Records[1].segment_sponsor

\* absent, null or the empty string
NoSponsor(v) == v \in {Undefined, Null, Str("")}

\* C7 as amended: each sponsor of the template data is the literal
\* "Sponsorship Available" when the first record's sponsor is absent, null or
\* the empty string, and the first record's sponsor unchanged for every
\* non-empty string.
C7_SponsorUnchangedWhenNotEmpty ==
  (Transformed /\ N >= 1) =>
     /\ loc.templateData.sectionSponsor =
          IF NoSponsor(Records[1].section_sponsor)
          THEN Str("Sponsorship Available") ELSE Records[1].section_sponsor
     /\ loc.templateData.segmentSponsor =
          IF NoSponsor(Records[1].segment_sponsor)
          THEN Str("Sponsorship Available") ELSE Records[1].segment_sponsor

C7_Witness ==
  /\ Transformed
  /\ N >= 2
  /\ Records[1].section_sponsor = Str("")
  /\ Records[1].segment_sponsor = Str("The Cohen Family")
  /\ loc.templateData.sectionSponsor = Str("Sponsorship Available")
  /\ loc.templateData.segmentSponsor = Str("The Cohen Family")

---------------------------------------------------------------------------
(* Properties of cleanString and the request bodies (SpecClean). *)

IsAscii(text) == \A i \in DOMAIN text : text[i] <= 127

\* C8: cleanString removes exactly the code units above 127 and keeps the
\* others in order; it is the identity on ASCII text and idempotent; and the
\* HTML and text bodies of the create request hold no code unit above 127.
C8_CleanStringKeepsExactlyAscii ==
  /\ pc \in {"cleaned", "cleanedTwice", "built"} =>
        /\ ret.once = SelectSeq(arg.html, LAMBDA c : c <= 127)
        /\ IsAscii(arg.html) => ret.once = arg.html
  /\ pc \in {"cleanedTwice", "built"} => ret.twice = ret.once
  /\ pc = "built" =>
        /\ IsAscii(loc.generateEmailRequest.email_content)
        /\ IsAscii(loc.generateEmailRequest.text_content)

C8_Witness ==
  /\ pc = "built"
  /\ arg.html = <<65, 1488, 127>>
  /\ arg.text = <<65, 32, 32, 1488>>
  /\ ret.once = <<65, 127>>
  /\ loc.generateEmailRequest.email_content = <<65, 127>>
  /\ loc.generateEmailRequest.text_content = <<65, 32, 32>>

---------------------------------------------------------------------------
(* Properties of the pipeline (Spec), continued. *)

Writes == {i \in DOMAIN effects : effects[i].op = "writeFile"}

\* the Schedule Source answered with the empty array
EmptyResponse == loc.apiData = Arr(<<>>)

\* C11: every template data the transformer returns has at least one part:
\* on an empty schedule response the transformer throws, so no template data
\* is made of it and nothing of it is rendered or written to the artifacts.
C11_EmptyResponseFailsFast ==
  /\ loc.templateData # Unassigned => Len(loc.templateData.parts.a) >= 1
  /\ EmptyResponse =>
        /\ loc.templateData = Unassigned
        /\ Writes = {}

\* C12: minification is applied to the HTML body alone: the text written to
\* test.txt is the expansion of the text template as handlebars gave it, and
\* the text_content sent to the sink is that expansion (sanitized and
\* transcoded as every body is), not its minified form.
C12_TextBodyIsNotMinified ==
  /\ \A i \in Writes :
        effects[i].file = "test.txt" => effects[i].data = loc.textExpanded
  /\ \A i \in Posts("create") :
        effects[i].body.text_content = RequestBody(loc.textExpanded)

Fetches == {i \in DOMAIN effects : effects[i].op = "fetch"}

\* the calendar day the caller named, as YYYY-MM-DD
SuppliedDay ==
  CASE args.date = Str("2019-01-15") -> "2019-01-15"
    [] args.date = Str("01-15-2019") -> "2019-01-15"
    [] OTHER -> ""

\* C13: the schedule fetch of a run given a date asks for
\* https://api.tanachstudy.com/{programPath}/schedule/{YYYY-MM-DD}, the day
\* being the calendar day the caller supplied, with no time of day.
C13_FetchNamesTheSuppliedDay ==
  \A i \in Fetches :
     SuppliedDay # "" =>
        effects[i].url =
          "https://api.tanachstudy.com/" \o context.programPath.s \o "/schedule/"
            \o SuppliedDay

===========================================================================
